---- MODULE Spec2Model ----
(***************************************************************************)
(* Model of backend/routes/files.js: the file routes of Md_Collab.         *)
(*                                                                         *)
(* The store holds three collections: File documents (keyed by id), Edit   *)
(* documents and Notification documents (both referencing a File by id).   *)
(* Every route handler is an async function: the code between two awaits   *)
(* runs without interruption, and every await on the store is a point      *)
(* where other handlers may run.  A handler in flight occupies one slot of *)
(* procs; its pc names the await it is waiting on.                         *)
(*                                                                         *)
(* file.save() on a loaded document writes the document's changes, not the *)
(* whole document: the pushed versions entry is appended to the stored     *)
(* array, and a path is set only when the handler assigned it a value      *)
(* other than the one it had loaded.  It throws when the stored document   *)
(* is gone.  Any store call may throw (a store error).                     *)
(***************************************************************************)
EXTENDS Integers, Sequences, FiniteSets, TLC

\* ------------------------------------------------------------------ bounds
MaxFiles == 2
MaxDeps == 2
MaxEvents == 2

FileIds == 1..MaxFiles
\* Two handlers can be in flight at the same time.
Procs == {"p1", "p2"}

\* ------------------------------------------------------------ principals
\* The principals authenticate() can produce (req.user): two editors, an
\* admin and a viewer.
Users == {"e1", "e2", "a1", "v1"}

Role(u) ==
  CASE u = "a1" -> "admin"
    [] u = "v1" -> "viewer"
    [] OTHER -> "editor"

Contents == {"c1", "c2"}
Names == {"n1", "n2"}
\* The name and the content of the files created in a run, and the authors
\* and the content of the drafts inserted in it.
CreateNames == {"n1"}
DraftAuthors == {"e2", "v1"}
DraftContents == {"c1"}
\* "" stands for a name that is omitted or empty in req.body (falsy).
NameInputs == Names \cup {""}

\* ------------------------------------------------------------------ state
\* files, edits, notifs: the three collections (edits and notifs as the
\*   number of documents that reference each file id).
\* procs: the handlers in flight.  reply: the answer the last step sent, if
\*   it sent one.  nextId: the next fresh File id.  now: the clock.
\* written: per file, the contents written by create and by every save that
\*   succeeded, in order (history).  nev: requests and environment events so
\*   far.
VARIABLES files, edits, notifs, procs, reply, nextId, now, written, nev

vars == <<files, edits, notifs, procs, reply, nextId, now, written, nev>>

store == <<files, edits, notifs>>

NoFile == [absent |-> TRUE]

IdleProc ==
  [pc |-> "idle", op |-> "none", user |-> "v1", id |-> 0, content |-> "",
   name |-> "", doc |-> NoFile, setContent |-> FALSE, setName |-> FALSE,
   eSt |-> "none", nSt |-> "none", status |-> 0, fault |-> FALSE,
   list |-> <<>>]

NoReply == IdleProc

\* A File that create stored before the run starts: "n1" with content "c1",
\* created by e1.
StoredFile ==
  [name |-> "n1", content |-> "c1", author |-> "e1", status |-> "approved",
   versions |-> <<[content |-> "c1", updatedBy |-> "e1"]>>, updatedAt |-> 0]

\* The store when the run starts: empty, or holding File 1 as e1 created
\* it.  No handler is in flight.
Init ==
  /\ \E stored \in BOOLEAN :
       /\ files = [i \in FileIds |-> IF stored /\ i = 1 THEN StoredFile ELSE NoFile]
       /\ written = [i \in FileIds |-> IF stored /\ i = 1 THEN <<"c1">> ELSE <<>>]
       /\ nextId = IF stored THEN 2 ELSE 1
  /\ edits = [i \in FileIds |-> 0]
  /\ notifs = [i \in FileIds |-> 0]
  /\ procs = [p \in Procs |-> IdleProc]
  /\ reply = NoReply
  /\ now = 1
  /\ nev = 0

\* ---------------------------------------------------------------- helpers
\* authorize(...roles): the role gate in front of a handler.
Authorize(roles, u) == Role(u) \in roles

\* Variants of the role lists: a gate opened one role too wide or closed one
\* role too narrow.
CreateRolesAny == {"viewer", "editor", "admin"}
ForceUpdateRolesWide == {"editor", "admin"}
DeleteRolesAdmin == {"admin"}

CreateRoles == {"editor", "admin"}
ForceUpdateRoles == {"admin"}
SaveRoles == {"editor", "admin"}
DeleteRoles == {"editor", "admin"}

\* The roles each gated route lists.
GateRoles(op) ==
  CASE op = "create" -> CreateRoles
    [] op = "forceUpdate" -> ForceUpdateRoles
    [] op = "save" -> SaveRoles
    [] op = "delete" -> DeleteRoles

GatedOps == {"create", "forceUpdate", "save", "delete"}

\* A request of proc p starts: p is the first free slot (p1 before p2) and
\* the run has room.
CanStart(p) ==
  /\ procs[p].pc = "idle"
  /\ p = "p2" => procs["p1"].pc # "idle"
  /\ nev < MaxEvents

\* The request a handler is called with (req.user, req.params.id), and the
\* request once the handler has put the fields of req.body to use.
Request(op, u, id) == [IdleProc EXCEPT !.op = op, !.user = u, !.id = id]

WithBody(r, content, name) == [r EXCEPT !.content = content, !.name = name]

\* res.status(code).json(...): the handler has answered.
Respond(r, code) == [r EXCEPT !.pc = "done", !.status = code]

\* The catch block of a handler: a store call threw.
Fail(r) == [r EXCEPT !.pc = "done", !.status = 500, !.fault = TRUE]

\* .sort({ updatedAt: -1 }) over a set of ids.
RECURSIVE SortByUpdatedAt(_)
SortByUpdatedAt(S) ==
  IF S = {} THEN <<>>
  ELSE LET m == CHOOSE i \in S : \A j \in S : files[j].updatedAt <= files[i].updatedAt
       IN <<m>> \o SortByUpdatedAt(S \ {m})

\* Variant: the find without its status filter.
FindApprovedAll == {i \in FileIds : files[i] # NoFile}

\* File.find({ status: 'approved' })
FindApproved == {i \in FileIds : files[i] # NoFile /\ files[i].status = "approved"}

\* File.find({ author: req.user._id })
FindByAuthor(u) == {i \in FileIds : files[i] # NoFile /\ files[i].author = u}

\* authorize(...roles) rejects the request: the handler does not run.
Reject(p, u, op, id) ==
  /\ CanStart(p)
  /\ ~Authorize(GateRoles(op), u)
  /\ reply' = Respond(Request(op, u, id), 403)
  /\ nev' = nev + 1
  /\ UNCHANGED <<files, edits, notifs, procs, nextId, now, written>>

\* ------------------------------------------------------------------ reads
\* router.get('/')
ListApproved(p, u, ok) ==
  /\ CanStart(p)
  /\ LET r == Request("listApproved", u, 0) IN
     reply' = IF ~ok THEN Fail(r)
              ELSE Respond([r EXCEPT !.list = SortByUpdatedAt(FindApproved)], 200)
  /\ nev' = nev + 1
  /\ UNCHANGED <<files, edits, notifs, procs, nextId, now, written>>

\* router.get('/my/files')
ListMine(p, u, ok) ==
  /\ CanStart(p)
  /\ LET r == Request("listMine", u, 0) IN
     reply' = IF ~ok THEN Fail(r)
              ELSE Respond([r EXCEPT !.list = SortByUpdatedAt(FindByAuthor(u))], 200)
  /\ nev' = nev + 1
  /\ UNCHANGED <<files, edits, notifs, procs, nextId, now, written>>

\* Variant: the read stamps the File it returns.
GetTouching(p, u, id, ok) ==
  /\ CanStart(p)
  /\ LET r == Request("get", u, id) IN
     reply' = IF ~ok THEN Fail(r)
              ELSE IF files[id] = NoFile THEN Respond(r, 404)
              ELSE Respond([r EXCEPT !.doc = files[id]], 200)
  /\ files' = IF ok /\ files[id] # NoFile
              THEN [files EXCEPT ![id].updatedAt = now] ELSE files
  /\ nev' = nev + 1
  /\ UNCHANGED <<edits, notifs, procs, nextId, now, written>>

\* router.get('/:id')
Get(p, u, id, ok) ==
  /\ CanStart(p)
  /\ LET r == Request("get", u, id) IN
     reply' = IF ~ok THEN Fail(r)
              ELSE IF files[id] = NoFile THEN Respond(r, 404)
              ELSE Respond([r EXCEPT !.doc = files[id]], 200)
  /\ nev' = nev + 1
  /\ UNCHANGED <<files, edits, notifs, procs, nextId, now, written>>

\* ----------------------------------------------------------------- create
\* Variant: the file is created as a draft.
NewFileDraft(name, content, u) ==
  [name |-> name, content |-> content, author |-> u, status |-> "draft",
   versions |-> <<[content |-> content, updatedBy |-> u]>>, updatedAt |-> now]

\* new File({...}) in router.post('/')
NewFile(name, content, u) ==
  [name |-> name, content |-> content, author |-> u, status |-> "approved",
   versions |-> <<[content |-> content, updatedBy |-> u]>>, updatedAt |-> now]

\* router.post('/')
Create(p, u, name, content, ok) ==
  /\ CanStart(p)
  /\ Authorize(CreateRoles, u)
  /\ LET r == WithBody(Request("create", u, 0), content, name) IN
     IF ~ok
     THEN /\ reply' = Fail(r)
          /\ UNCHANGED <<files, nextId, now, written>>
     ELSE /\ nextId <= MaxFiles
          /\ files' = [files EXCEPT ![nextId] = NewFile(name, content, u)]
          /\ reply' = Respond([r EXCEPT !.id = nextId, !.doc = NewFile(name, content, u)], 201)
          /\ written' = [written EXCEPT ![nextId] = <<content>>]
          /\ nextId' = nextId + 1
          /\ now' = now + 1
  /\ nev' = nev + 1
  /\ UNCHANGED <<edits, notifs, procs>>

\* ------------------------------------------------------- save, forceUpdate
\* Variant: the snapshot is signed with the File's author.
SnapshotByAuthor(file, u) ==
  [file EXCEPT
     !.versions = Append(@, [content |-> file.content, updatedBy |-> file.author])]

\* file.versions.push({ content: file.content, updatedBy: req.user._id })
Snapshot(file, u) ==
  [file EXCEPT !.versions = Append(@, [content |-> file.content, updatedBy |-> u])]

\* Variant: the ownership check without the admin bypass.
SaveAllowedOwnerOnly(file, u) == ~(file.author # u)

\* The ownership check of router.put('/:id/save').
SaveAllowed(file, u) == ~(file.author # u /\ Role(u) # "admin")

\* Variant: the name is assigned whether or not one was supplied.
SaveNameAlways(file, name) == [file EXCEPT !.name = name]

\* if (name) file.name = name
SaveName(file, name) == IF name # "" THEN [file EXCEPT !.name = name] ELSE file

\* Variant: the write replaces the stored ledger by the ledger of the
\* document this save loaded.
SaveDocOverwrite(stored, r) ==
  [stored EXCEPT
     !.versions = r.doc.versions,
     !.content = IF r.setContent THEN r.doc.content ELSE @,
     !.name = IF r.setName THEN r.doc.name ELSE @,
     !.updatedAt = now]

\* Variant: the write makes the saving principal the author.
SaveDocReauthor(stored, r) ==
  [stored EXCEPT
     !.versions = Append(@, r.doc.versions[Len(r.doc.versions)]),
     !.content = IF r.setContent THEN r.doc.content ELSE @,
     !.name = IF r.setName THEN r.doc.name ELSE @,
     !.author = r.user,
     !.updatedAt = now]

\* Variant: the save writes the pushed snapshot and not the content.
SaveDocNoContent(stored, r) ==
  [stored EXCEPT
     !.versions = Append(@, r.doc.versions[Len(r.doc.versions)]),
     !.name = IF r.setName THEN r.doc.name ELSE @,
     !.updatedAt = now]

\* Variant: the save writes the content and not the pushed snapshot.
SaveDocNoSnapshot(stored, r) ==
  [stored EXCEPT
     !.content = IF r.setContent THEN r.doc.content ELSE @,
     !.name = IF r.setName THEN r.doc.name ELSE @,
     !.updatedAt = now]

\* file.save() of a loaded document: the changes of r.doc applied to the
\* stored document.
SaveDoc(stored, r) ==
  [stored EXCEPT
     !.versions = Append(@, r.doc.versions[Len(r.doc.versions)]),
     !.content = IF r.setContent THEN r.doc.content ELSE @,
     !.name = IF r.setName THEN r.doc.name ELSE @,
     !.updatedAt = now]

\* router.put('/:id/save') up to await file.save()
SaveBegin(p, u, id, content, name, ok) ==
  /\ CanStart(p)
  /\ Authorize(SaveRoles, u)
  /\ LET r == Request("save", u, id) IN
     IF ~ok
     THEN reply' = Fail(r) /\ UNCHANGED procs
     ELSE IF files[id] = NoFile
     THEN reply' = Respond(r, 404) /\ UNCHANGED procs
     ELSE IF ~SaveAllowed(files[id], u)
     THEN reply' = Respond([r EXCEPT !.doc = files[id]], 403) /\ UNCHANGED procs
     ELSE LET file == files[id]
              doc == SaveName([Snapshot(file, u) EXCEPT !.content = content], name)
          IN /\ procs' = [procs EXCEPT ![p] =
                  [WithBody(r, content, name) EXCEPT
                     !.pc = "save_write", !.doc = doc,
                     !.setContent = (doc.content # file.content),
                     !.setName = (doc.name # file.name)]]
             /\ reply' = NoReply
  /\ nev' = nev + 1
  /\ UNCHANGED <<files, edits, notifs, nextId, now, written>>

\* Variant: the write stores the loaded document whether or not the File is
\* still there (an upsert).
SaveWriteUpsert(p, ok) ==
  /\ procs[p].pc = "save_write"
  /\ LET r == procs[p] IN
     IF ~ok
     THEN /\ reply' = Fail(r)
          /\ UNCHANGED <<files, now, written>>
     ELSE /\ files' = [files EXCEPT ![r.id] =
                         IF @ = NoFile THEN [r.doc EXCEPT !.updatedAt = now]
                         ELSE SaveDoc(@, r)]
          /\ reply' = Respond(r, 200)
          /\ written' = [written EXCEPT ![r.id] = Append(@, r.content)]
          /\ now' = now + 1
  /\ procs' = [procs EXCEPT ![p] = IdleProc]
  /\ UNCHANGED <<edits, notifs, nextId, nev>>

\* await file.save() and the answer of router.put('/:id/save')
SaveWrite(p, ok) ==
  /\ procs[p].pc = "save_write"
  /\ LET r == procs[p] IN
     IF ~ok \/ files[r.id] = NoFile
     THEN /\ reply' = Fail(r)
          /\ UNCHANGED <<files, now, written>>
     ELSE /\ files' = [files EXCEPT ![r.id] = SaveDoc(@, r)]
          /\ reply' = Respond(r, 200)
          /\ written' = [written EXCEPT ![r.id] = Append(@, r.content)]
          /\ now' = now + 1
  /\ procs' = [procs EXCEPT ![p] = IdleProc]
  /\ UNCHANGED <<edits, notifs, nextId, nev>>

\* router.put('/:id') up to await file.save()
ForceUpdateBegin(p, u, id, content, ok) ==
  /\ CanStart(p)
  /\ Authorize(ForceUpdateRoles, u)
  /\ LET r == Request("forceUpdate", u, id) IN
     IF ~ok
     THEN reply' = Fail(r) /\ UNCHANGED procs
     ELSE IF files[id] = NoFile
     THEN reply' = Respond(r, 404) /\ UNCHANGED procs
     ELSE LET file == files[id]
              doc == [Snapshot(file, u) EXCEPT !.content = content]
          IN /\ procs' = [procs EXCEPT ![p] =
                  [WithBody(r, content, "") EXCEPT
                     !.pc = "force_write", !.doc = doc,
                     !.setContent = (doc.content # file.content)]]
             /\ reply' = NoReply
  /\ nev' = nev + 1
  /\ UNCHANGED <<files, edits, notifs, nextId, now, written>>

\* await file.save() and the answer of router.put('/:id')
ForceUpdateWrite(p, ok) ==
  /\ procs[p].pc = "force_write"
  /\ LET r == procs[p] IN
     IF ~ok \/ files[r.id] = NoFile
     THEN /\ reply' = Fail(r)
          /\ UNCHANGED <<files, now, written>>
     ELSE /\ files' = [files EXCEPT ![r.id] = SaveDoc(@, r)]
          /\ reply' = Respond(r, 200)
          /\ written' = [written EXCEPT ![r.id] = Append(@, r.content)]
          /\ now' = now + 1
  /\ procs' = [procs EXCEPT ![p] = IdleProc]
  /\ UNCHANGED <<edits, notifs, nextId, nev>>

\* ----------------------------------------------------------------- delete
\* Variant: the handler starts the cleanup without looking for the File.
DeleteBeginNoCheck(p, u, id, ok) ==
  /\ CanStart(p)
  /\ Authorize(DeleteRoles, u)
  /\ LET r == Request("delete", u, id) IN
     IF ~ok
     THEN reply' = Fail(r) /\ UNCHANGED procs
     ELSE /\ procs' = [procs EXCEPT ![p] =
               [r EXCEPT !.pc = "del_cleanup", !.doc = files[id],
                         !.eSt = "pending", !.nSt = "pending"]]
          /\ reply' = NoReply
  /\ nev' = nev + 1
  /\ UNCHANGED <<files, edits, notifs, nextId, now, written>>

\* router.delete('/:id') up to the Promise.all: both deleteMany calls are
\* started.
DeleteBegin(p, u, id, ok) ==
  /\ CanStart(p)
  /\ Authorize(DeleteRoles, u)
  /\ LET r == Request("delete", u, id) IN
     IF ~ok
     THEN reply' = Fail(r) /\ UNCHANGED procs
     ELSE IF files[id] = NoFile
     THEN reply' = Respond(r, 404) /\ UNCHANGED procs
     ELSE /\ procs' = [procs EXCEPT ![p] =
               [r EXCEPT !.pc = "del_cleanup", !.doc = files[id],
                         !.eSt = "pending", !.nSt = "pending"]]
          /\ reply' = NoReply
  /\ nev' = nev + 1
  /\ UNCHANGED <<files, edits, notifs, nextId, now, written>>

\* Variant: the handler waits for both calls and goes on whatever their
\* outcome (Promise.allSettled).
CleanupProcSettled(r) ==
  IF r.eSt = "pending" \/ r.nSt = "pending"
  THEN IF r.pc = "del_cleanup" /\ "fail" \in {r.eSt, r.nSt}
       THEN [r EXCEPT !.pc = "del_failed"]
       ELSE r
  ELSE [r EXCEPT !.pc = "del_file"]

\* await Promise.all([a, b]) when one of the two calls settles (r has the
\* new state of both).  It rejects on the first failure: the catch block
\* answers 500 while the other call, if outstanding, still runs ("del_failed"
\* until it settles).  It resolves when both have succeeded.
CleanupProc(r) ==
  IF r.eSt = "pending" \/ r.nSt = "pending"
  THEN IF r.pc = "del_cleanup" /\ "fail" \in {r.eSt, r.nSt}
       THEN [r EXCEPT !.pc = "del_failed"]
       ELSE r
  ELSE IF r.pc = "del_cleanup" /\ r.eSt = "ok" /\ r.nSt = "ok"
       THEN [r EXCEPT !.pc = "del_file"]
       ELSE IdleProc

CleanupReply(r) ==
  IF r.pc = "del_cleanup" /\ "fail" \in {r.eSt, r.nSt} THEN Fail(r) ELSE NoReply

\* Edit.deleteMany({ file: req.params.id })
DeleteManyEdits(id) == [edits EXCEPT ![id] = 0]

\* Notification.deleteMany({ fileId: req.params.id })
DeleteManyNotifs(id) == [notifs EXCEPT ![id] = 0]

\* The Edit.deleteMany call of a delete in flight settles.
DeleteEdits(p, ok) ==
  /\ procs[p].eSt = "pending"
  /\ LET r == [procs[p] EXCEPT !.eSt = IF ok THEN "ok" ELSE "fail"] IN
       /\ edits' = IF ok THEN DeleteManyEdits(r.id) ELSE edits
       /\ procs' = [procs EXCEPT ![p] = CleanupProc(r)]
       /\ reply' = CleanupReply(r)
  /\ UNCHANGED <<files, notifs, nextId, now, written, nev>>

\* The Notification.deleteMany call of a delete in flight settles.
DeleteNotifs(p, ok) ==
  /\ procs[p].nSt = "pending"
  /\ LET r == [procs[p] EXCEPT !.nSt = IF ok THEN "ok" ELSE "fail"] IN
       /\ notifs' = IF ok THEN DeleteManyNotifs(r.id) ELSE notifs
       /\ procs' = [procs EXCEPT ![p] = CleanupProc(r)]
       /\ reply' = CleanupReply(r)
  /\ UNCHANGED <<files, edits, nextId, now, written, nev>>

\* await File.findByIdAndDelete(req.params.id) and the answer
DeleteFile(p, ok) ==
  /\ procs[p].pc = "del_file"
  /\ LET r == procs[p] IN
     IF ~ok
     THEN /\ reply' = Fail(r)
          /\ UNCHANGED files
     ELSE /\ files' = [files EXCEPT ![r.id] = NoFile]
          /\ reply' = Respond(r, 200)
  /\ procs' = [procs EXCEPT ![p] = IdleProc]
  /\ UNCHANGED <<edits, notifs, nextId, now, written, nev>>

\* ------------------------------------------------------------ environment
\* Another route of the application records an Edit for an existing File.
AddEdit(id) ==
  /\ nev < MaxEvents
  /\ files[id] # NoFile
  /\ edits[id] < MaxDeps
  /\ edits' = [edits EXCEPT ![id] = @ + 1]
  /\ reply' = NoReply
  /\ nev' = nev + 1
  /\ UNCHANGED <<files, notifs, procs, nextId, now, written>>

\* Another route of the application records a Notification for an existing
\* File.
AddNotification(id) ==
  /\ nev < MaxEvents
  /\ files[id] # NoFile
  /\ notifs[id] < MaxDeps
  /\ notifs' = [notifs EXCEPT ![id] = @ + 1]
  /\ reply' = NoReply
  /\ nev' = nev + 1
  /\ UNCHANGED <<files, edits, procs, nextId, now, written>>

\* An external collaborator inserts a File with status draft.
InsertDraft(u, name, content) ==
  /\ nev < MaxEvents
  /\ nextId <= MaxFiles
  /\ files' = [files EXCEPT ![nextId] =
       [NewFile(name, content, u) EXCEPT !.status = "draft"]]
  /\ written' = [written EXCEPT ![nextId] = <<content>>]
  /\ nextId' = nextId + 1
  /\ now' = now + 1
  /\ reply' = NoReply
  /\ nev' = nev + 1
  /\ UNCHANGED <<edits, notifs, procs>>

\* ------------------------------------------------------------------- next
Begin(p) ==
  \E u \in Users, ok \in BOOLEAN :
    \/ \E id \in FileIds : \E op \in GatedOps \ {"create"} : Reject(p, u, op, id)
    \/ Reject(p, u, "create", 0)
    \/ ListApproved(p, u, ok)
    \/ ListMine(p, u, ok)
    \/ \E id \in FileIds : Get(p, u, id, ok)
    \/ \E name \in CreateNames, content \in Contents : Create(p, u, name, content, ok)
    \/ \E id \in FileIds, content \in Contents, name \in NameInputs :
         SaveBegin(p, u, id, content, name, ok)
    \/ \E id \in FileIds, content \in Contents : ForceUpdateBegin(p, u, id, content, ok)
    \/ \E id \in FileIds : DeleteBegin(p, u, id, ok)

Continue(p) ==
  \E ok \in BOOLEAN :
    \/ SaveWrite(p, ok)
    \/ ForceUpdateWrite(p, ok)
    \/ DeleteEdits(p, ok)
    \/ DeleteNotifs(p, ok)
    \/ DeleteFile(p, ok)

Environment ==
  \/ \E id \in FileIds : AddEdit(id)
  \/ \E id \in FileIds : AddNotification(id)
  \/ \E u \in DraftAuthors, name \in CreateNames, content \in DraftContents :
       InsertDraft(u, name, content)

Next ==
  \/ \E p \in Procs : Begin(p)
  \/ \E p \in Procs : Continue(p)
  \/ Environment

Spec == Init /\ [][Next]_vars

\* Requests run one after another: a request starts only when no other
\* request is in flight.
AllIdle == \A q \in Procs : procs[q].pc = "idle"

NextSeq ==
  \/ \E p \in Procs : AllIdle /\ Begin(p)
  \/ \E p \in Procs : Continue(p)
  \/ Environment

SeqSpec == Init /\ [][NextSeq]_vars


\* ----------------------------------------------------------------- claims
IsReply(op) == reply.pc = "done" /\ reply.op = op

Loaded(r) == r.doc # NoFile

\* C1: after a file was created with content C0 and N saves (save or
\* forceUpdate) succeeded one after another writing C1..CN, versions has
\* N+1 entries, its first entry holds C0, entry k+1 holds C(k-1), and the
\* current content is CN.  written[i] is <<C0, C1, ..., CN>>.
C1_LedgerAfterSaves ==
  \A i \in FileIds :
    files[i] # NoFile =>
      /\ Len(files[i].versions) = Len(written[i])
      /\ files[i].versions[1].content = written[i][1]
      /\ \A k \in 1..(Len(written[i]) - 1) :
           files[i].versions[k + 1].content = written[i][k]
      /\ files[i].content = written[i][Len(written[i])]

C1_Witness ==
  \E i \in FileIds :
    /\ files[i] # NoFile
    /\ written[i] = <<"c1", "c2", "c1">>
    /\ Len(files[i].versions) = 3

\* C2: a save answered for a loaded file is Forbidden (403) when the
\* principal is an editor other than the file's author, and is a success
\* (200) when the principal is an admin, whoever the author is, unless a
\* store call threw.
C2_SaveOwnership ==
  (IsReply("save") /\ Loaded(reply)) =>
    /\ (Role(reply.user) = "editor" /\ reply.doc.author # reply.user)
         => reply.status = 403
    /\ Role(reply.user) = "admin" => (reply.status = 200 \/ reply.fault)

C2_Witness ==
  /\ IsReply("save")
  /\ reply.user = "e2"
  /\ Loaded(reply) /\ reply.doc.author = "e1" /\ reply.doc.status = "approved"
  /\ reply.status = 403

\* C3 (as claimed): when delete(id) answers success, no Edit and no
\* Notification that references id is in the store.
C3_NoDependentsAfterDelete ==
  (IsReply("delete") /\ reply.status = 200) =>
    (edits[reply.id] = 0 /\ notifs[reply.id] = 0)

C5_ForceUpdateAdminOnly ==
  /\ [](\A p \in Procs :
          procs[p].op = "forceUpdate" => Role(procs[p].user) = "admin")
  /\ []((IsReply("forceUpdate") /\ Role(reply.user) = "admin" /\ Loaded(reply))
          => (reply.status = 200 \/ reply.fault))
  /\ [][(reply'.pc = "done" /\ reply'.op = "forceUpdate"
         /\ Role(reply'.user) # "admin")
          => (reply'.status = 403 /\ UNCHANGED store)]_vars

C5_Witness ==
  /\ IsReply("forceUpdate")
  /\ reply.user = "a1"
  /\ Loaded(reply) /\ reply.doc.author = "e1"
  /\ reply.status = 200
  /\ files[reply.id].content = reply.content

\* C6: no step of a request of a viewer changes the Files, the Edits or the
\* Notifications.
C6_ViewerChangesNothing ==
  [][(\/ (reply'.pc = "done" /\ Role(reply'.user) = "viewer")
      \/ \E p \in Procs : /\ procs'[p] # procs[p]
                          /\ procs'[p].pc # "idle"
                          /\ Role(procs'[p].user) = "viewer")
       => UNCHANGED store]_vars

C6_Witness ==
  /\ IsReply("save")
  /\ reply.user = "v1"
  /\ reply.status = 403
  /\ files[reply.id] # NoFile /\ files[reply.id].author = "v1"

\* The ids of a listing.
Listed == {reply.list[k] : k \in 1..Len(reply.list)}

\* C7: listApproved answers exactly the files whose status is approved, and
\* listMine(P) exactly the files whose author is P, each once.
C7_Listings ==
  /\ (IsReply("listApproved") /\ reply.status = 200) =>
       /\ Listed = {i \in FileIds : files[i] # NoFile /\ files[i].status = "approved"}
       /\ Len(reply.list) = Cardinality(Listed)
  /\ (IsReply("listMine") /\ reply.status = 200) =>
       /\ Listed = {i \in FileIds : files[i] # NoFile /\ files[i].author = reply.user}
       /\ Len(reply.list) = Cardinality(Listed)

C7_Witness ==
  /\ IsReply("listApproved") /\ reply.status = 200
  /\ Len(reply.list) = 1
  /\ \E i \in FileIds : files[i] # NoFile /\ files[i].status = "draft"

\* C8: a create of an editor or an admin answers 201 unless the store call
\* threw, and the File it stored and answered has status approved, the
\* principal as author, the given content, and one versions entry with the
\* given content and the principal as updatedBy.
C8_CreateResult ==
  IsReply("create") =>
    /\ (Role(reply.user) \in {"editor", "admin"} /\ ~reply.fault) => reply.status = 201
    /\ reply.status = 201 =>
         /\ files[reply.id] = reply.doc
         /\ reply.doc.status = "approved"
         /\ reply.doc.author = reply.user
         /\ reply.doc.content = reply.content
         /\ reply.doc.versions =
              <<[content |-> reply.content, updatedBy |-> reply.user]>>

C8_Witness ==
  /\ IsReply("create") /\ reply.status = 201
  /\ reply.user = "e1" /\ reply.content = "c2"
  /\ files[reply.id].content = "c2"

\* C9: a delete of an editor or an admin is never Forbidden, whoever the
\* author is; it answers 404 only when the File is absent, and otherwise
\* 200 unless a store call threw; when it answers 200 the File is gone.
C9_DeleteAnyFile ==
  IsReply("delete") =>
    /\ Role(reply.user) \in {"editor", "admin"} => reply.status \in {200, 404, 500}
    /\ reply.status = 404 => files[reply.id] = NoFile
    /\ reply.status = 500 => reply.fault
    /\ reply.status = 200 => (Loaded(reply) /\ files[reply.id] = NoFile)

C9_Witness ==
  /\ IsReply("delete") /\ reply.status = 200
  /\ reply.user = "e2"
  /\ reply.doc.author = "e1"
  /\ files[reply.id] = NoFile

ReadOps == {"get", "listApproved", "listMine"}

C11_ReadsChangeNothing ==
  [][/\ (reply'.pc = "done" /\ reply'.op \in ReadOps) => UNCHANGED store
     /\ (reply'.pc = "done" /\ reply'.op = "get" /\ reply'.status = 200)
          => reply'.doc = files'[reply'.id]
     /\ (/\ IsReply("get") /\ reply.status = 200
         /\ reply'.pc = "done" /\ reply'.op = "get" /\ reply'.status = 200
         /\ reply'.id = reply.id)
          => /\ reply'.doc.content = reply.doc.content
             /\ Len(reply'.doc.versions) = Len(reply.doc.versions)]_vars

C11_Witness ==
  /\ IsReply("get") /\ reply.status = 200
  /\ nev = 2
  /\ reply.doc = files[reply.id]
  /\ Len(reply.doc.versions) = 2

\* C12: in every reachable state, the states inside a delete included, every
\* Edit and every Notification references a File that exists.
C12_DependentsHaveFile ==
  \A i \in FileIds : (edits[i] > 0 \/ notifs[i] > 0) => files[i] # NoFile

\* C13: in every step, interleaved saves and force updates included, the
\* versions of a File that exists before and after the step are the old
\* versions, possibly with entries appended at the end: nothing is removed,
\* overwritten or reordered and the length never decreases.
C13_LedgerAppendOnly ==
  [][\A i \in FileIds :
       (files[i] # NoFile /\ files'[i] # NoFile)
         => /\ Len(files'[i].versions) >= Len(files[i].versions)
            /\ SubSeq(files'[i].versions, 1, Len(files[i].versions))
                 = files[i].versions]_vars

C13_Witness ==
  \E i \in FileIds :
    /\ files[i] # NoFile
    /\ Len(files[i].versions) = 3
    /\ written[i][2] = "c2"
    /\ files[i].versions[3].content = "c1"

\* C14, as stated: every successful save or force update appends exactly
\* one versions entry, holding the content the File had in the store when
\* this save wrote its new content, signed by the principal of the save;
\* also when saves on one id interleave.
WriteOps == {"save", "forceUpdate"}

Wrote == reply'.pc = "done" /\ reply'.op \in WriteOps /\ reply'.status = 200

C14_SnapshotOfStoredContent ==
  [][Wrote =>
       files'[reply'.id].versions =
         Append(files[reply'.id].versions,
                [content |-> files[reply'.id].content,
                 updatedBy |-> reply'.user])]_vars

\* C14, amended: every successful save or force update appends exactly one
\* versions entry, the one it pushed when it loaded the File: its content is
\* the content the File had in the store when this save read it, and it is
\* signed by the principal of the save; also when saves on one id
\* interleave.
Pushed(r) == r.doc.versions[Len(r.doc.versions)]

C14_SnapshotOfContentRead ==
  [][\A p \in Procs :
       /\ (procs[p].pc = "idle" /\ procs'[p].pc \in {"save_write", "force_write"})
            => procs'[p].doc.versions =
                 Append(files[procs'[p].id].versions,
                        [content |-> files[procs'[p].id].content,
                         updatedBy |-> procs'[p].user])
       /\ (procs[p].pc \in {"save_write", "force_write"} /\ procs'[p].pc = "idle"
           /\ Wrote)
            => /\ files'[reply'.id].versions =
                    Append(files[reply'.id].versions, Pushed(procs[p]))
               /\ Pushed(procs[p]).updatedBy = reply'.user
               /\ reply'.id = procs[p].id]_vars

C14_Witness ==
  /\ reply.pc = "done" /\ reply.op \in WriteOps /\ reply.status = 200
  /\ Len(files[reply.id].versions) = 3
  /\ files[reply.id].versions[3] = [content |-> "c1", updatedBy |-> reply.user]
  /\ written[reply.id][2] = "c2"
  /\ reply.user # files[reply.id].author

\* C15, as stated: in every reachable state of a File the newest versions
\* entry holds the content the File had immediately before its most recent
\* save, and no versions entry holds the content that is currently live.
C15_LedgerOnlyHistory ==
  \A i \in FileIds :
    files[i] # NoFile =>
      /\ Len(written[i]) >= 2
           => files[i].versions[Len(files[i].versions)].content
                = written[i][Len(written[i]) - 1]
      /\ \A k \in 1..Len(files[i].versions) :
           files[i].versions[k].content # files[i].content

\* C15, amended: with saves run one after another, the newest versions entry
\* of a File that was saved at least once holds the content the File had
\* immediately before its most recent save; a File that was never saved has
\* one entry, the founding one, and it holds the content that is live.
C15_NewestIsPreImage ==
  \A i \in FileIds :
    files[i] # NoFile =>
      /\ Len(written[i]) >= 2
           => files[i].versions[Len(files[i].versions)].content
                = written[i][Len(written[i]) - 1]
      /\ Len(written[i]) = 1
           => /\ Len(files[i].versions) = 1
              /\ files[i].versions[1].content = files[i].content

C15_Witness ==
  \E i \in FileIds :
    /\ files[i] # NoFile
    /\ Len(written[i]) = 3
    /\ files[i].versions[3].content = "c2"
    /\ files[i].content = "c1"
    /\ files[i].versions[1].content = files[i].content

\* C16: when saves on one id overlap and succeed, the content of the File
\* after a save's write is the content that save asked for (the last write
\* wins), and the entry the save appended holds the content it read.
\* Overlapped(r): another save wrote the File between r's read and now.
Overlapped(r) == Len(files[r.id].versions) >= Len(r.doc.versions)

C16_LastWriteWins ==
  [][\A p \in Procs :
       (/\ procs[p].pc \in {"save_write", "force_write"}
        /\ procs'[p].pc = "idle"
        /\ Wrote
        /\ Overlapped(procs[p]))
         => /\ files'[procs[p].id].content = procs[p].content
            /\ files'[procs[p].id].versions[Len(files'[procs[p].id].versions)]
                 = Pushed(procs[p])]_vars

\* C17: a save, force update or delete by a principal its route admits, on
\* an id with no File, answers 404 and changes nothing (no File appears, no
\* Edit or Notification goes) and does not go on to a store write; save
\* answers 404 and not 403 to an editor, the existence check coming first.
MutatingOps == {"save", "forceUpdate", "delete"}

C18_ForbiddenChangesNothing ==
  [][/\ (reply'.pc = "done" /\ reply'.op = "save" /\ reply'.status = 403)
          => UNCHANGED store
     /\ \A i \in FileIds :
          (files[i] # NoFile /\ files'[i] # NoFile)
            => /\ files'[i].author = files[i].author
               /\ files'[i].status = files[i].status]_vars

C18_Witness ==
  /\ IsReply("save") /\ reply.status = 403 /\ Loaded(reply)
  /\ reply.user = "e2"
  /\ files[reply.id].author = "e1"
  /\ files[reply.id].status = "approved"
  /\ files[reply.id].content = "c2"
  /\ Len(files[reply.id].versions) = 2

\* C19: an id whose File was removed never has a File again; a save or force
\* update that read the File before the removal does not bring it back when
\* it writes afterwards.  Ids below nextId have been given out.
C19_DeletedStaysDeleted ==
  [][\A i \in FileIds :
       (files[i] = NoFile /\ i < nextId) => files'[i] = NoFile]_vars

C19_Witness ==
  /\ reply.pc = "done" /\ reply.op \in WriteOps
  /\ Loaded(reply) /\ reply.fault
  /\ files[reply.id] = NoFile
  /\ reply.id < nextId

TypeOK ==
  /\ nextId \in 1..(MaxFiles + 1)
  /\ nev \in 0..MaxEvents
  /\ \A i \in FileIds : edits[i] \in 0..MaxDeps /\ notifs[i] \in 0..MaxDeps
  /\ \A i \in FileIds : files[i] # NoFile => Len(files[i].versions) \in 1..(MaxEvents + 1)
====
